---- MODULE Spec2Model ----
(***************************************************************************)
(* Canary integration of home-assistant-core: the camera adapter           *)
(* (components/canary/camera.py) and the sensor adapter                    *)
(* (components/canary/sensor.py), each reading the coordinator's snapshot. *)
(*                                                                         *)
(* Optional values are sequences of length at most one: <<>> is Python's   *)
(* None and <<x>> is the value x.  Ids and URLs are positive integers and  *)
(* 0 stands for "no id" / "no URL".                                        *)
(***************************************************************************)
EXTENDS Integers, Sequences, FiniteSets, TLC

\* ------------------------------------------------------------- bounds
MaxEntryId == 2
MaxUrl == 1
MaxOlderCamera == 0
MaxOlder == 2
MaxDevices == 1
MaxReadings == 2
MaxLiveUrl == 1
MaxRunning == 2
TickStep == 30
ElapsedCap == 120

\* ------------------------------------------------------------- values
None == <<>>
Some(x) == <<x>>

EntryIds == 1..MaxEntryId
Urls == 1..MaxUrl

\* canary.model.Entry as the adapters read it: entry_id and the list of
\* thumbnail image URLs.  A refresh builds new Entry objects, so two
\* snapshots may carry the same entry_id with different thumbnails.
ThumbnailLists == {<<>>} \cup {<<u>> : u \in Urls}
Entry == [entry_id : EntryIds, thumbnails : ThumbnailLists]

\* Entry lists, newest first.  The adapters read entries[0] and len(entries)
\* only, so the entries after the first all carry one value; n bounds their
\* number.
OlderEntry == [entry_id |-> 1, thumbnails |-> <<>>]
EntryLists(n) ==
    {<<>>} \cup {<<e>> \o [i \in 1..k |-> OlderEntry] : e \in Entry, k \in 0..n}

\* coordinator.data["entries"] restricted to this device's key:
\* present = FALSE is a missing key (KeyError on lookup).
MissingKey == [present |-> FALSE, list |-> <<>>]
EntrySlots(n) == {MissingKey} \cup {[present |-> TRUE, list |-> l] : l \in EntryLists(n)}

\* Image bytes: the content served at a thumbnail URL, or a frame that ffmpeg
\* extracted from the live stream.
ThumbBytes(u) == <<"thumb", u>>
LiveFrame == <<"live", 0>>

\* LiveStreamSession objects the vendor client hands out; live_stream_url 0
\* is a session without a URL.
Sessions == [live_stream_url : 0..MaxLiveUrl]

Requesters == {"image", "mjpeg"}
Never == -1

VARIABLES
    entries,                \* coordinator.data["entries"][device_id]
    last_event,             \* CanaryCamera._last_event
    image,                  \* CanaryCamera._image
    last_image_id,          \* CanaryCamera._last_image_id (0 = None)
    image_url,              \* CanaryCamera._image_url (0 = None)
    live_stream_url,        \* CanaryCamera._live_stream_url (0 = None)
    live_stream_session,    \* CanaryCamera._live_stream_session
    throttle_lock,          \* Throttle: the per-method lock is held
    throttle_last,          \* Throttle: seconds since the recorded last run, or Never
    pc,                     \* where each request handler is suspended
    stream_open,            \* the MJPEG request's CameraMjpeg has a running process
    running,                \* transcoding processes opened and not closed
    performed,              \* seconds since renew_live_stream_session last ran to its end, or Never (a clock, not program state)
    img,                    \* bookkeeping of the still-image request (not program state)
    locations,              \* coordinator.data["locations"]
    cameras,                \* what camera.async_setup_entry handed to async_add_entities
    sensors,                \* what sensor.async_setup_entry handed to async_add_entities
    sensor_type,            \* CanarySensor._sensor_type[0]
    readings,               \* coordinator.data["readings"][device_id]
    native_value,           \* the last value the native_value property returned
    extra_state_attributes  \* the last value the extra_state_attributes property returned

camVars == <<entries, last_event, image, last_image_id, image_url, live_stream_url,
             live_stream_session, throttle_lock, throttle_last, pc, stream_open,
             running, performed, img>>

setupVars == <<locations, cameras, sensors>>
sensorVars == <<sensor_type, readings, native_value, extra_state_attributes>>

vars == <<camVars, setupVars, sensorVars>>

\* ------------------------------------------------------------- camera.py

MIN_TIME_BETWEEN_SESSION_RENEW == 90

Min(a, b) == IF a < b THEN a ELSE b

\* The latest still-image request, as its caller sees it:
\*   seen      entry_id of entries[device_id][0] read by _check_for_new_image (0: none read)
\*   outcome   "running" | "returned" | "raised"
\*   result    the bytes returned
ImgInit == [seen |-> 0, outcome |-> "returned", result |-> None]

\* The platform setup and the sensor adapter, not yet run or read.
Unset == <<"unset">>

SetupParked == locations = <<>> /\ cameras = Unset /\ sensors = Unset

SensorParked ==
    /\ sensor_type = "temperature"
    /\ readings = MissingKey
    /\ native_value = Unset
    /\ extra_state_attributes = Unset

\* CanaryCamera.__init__: lines 104-118.
CameraConstructed ==
    /\ last_event = None
    /\ image = None
    /\ last_image_id = 0
    /\ image_url = 0
    /\ live_stream_url = 0
    /\ live_stream_session = None
    /\ throttle_lock = FALSE
    /\ throttle_last = Never
    /\ pc = [r \in Requesters |-> "idle"]
    /\ stream_open = FALSE
    /\ running = 0
    /\ performed = Never
    /\ img = ImgInit

CamInit ==
    /\ entries \in EntrySlots(MaxOlderCamera)
    /\ CameraConstructed
    /\ SetupParked
    /\ SensorParked

adapter == <<last_event, image, last_image_id, image_url>>
live == <<live_stream_url, live_stream_session>>
throttle == <<throttle_lock, throttle_last>>
procs == <<stream_open, running>>

\* entry_id of entries[device_id][0] in slot e, 0 when the key is missing or
\* the list is empty.
TopId(e) == IF e.present /\ e.list # <<>> THEN e.list[1].entry_id ELSE 0

\* The coordinator replaces its snapshot.
CoordinatorRefresh ==
    /\ \E e \in EntrySlots(MaxOlderCamera) :
          /\ e # entries
          /\ entries' = e
    /\ UNCHANGED <<setupVars, sensorVars>>
    /\ UNCHANGED <<adapter, live, throttle, pc, procs, performed, img>>

\* Time passes.
Advance(t) == IF t = Never THEN Never ELSE Min(t + TickStep, ElapsedCap)

Tick ==
    /\ throttle_last # Never \/ performed # Never
    /\ throttle_last # ElapsedCap \/ performed # ElapsedCap
    /\ throttle_last' = Advance(throttle_last)
    /\ performed' = Advance(performed)
    /\ UNCHANGED <<setupVars, sensorVars>>
    /\ UNCHANGED <<entries, adapter, live, throttle_lock, pc, procs, img>>

\* CanaryCamera._check_for_new_image: the fields it leaves, the exception it
\* ends with ("none": it returns) and the entry id it read.
\* Lines 183-194 when they return early or raise: nothing is assigned.
CheckUnchanged(exc) ==
    [exc |-> exc, last_event |-> last_event, image |-> image, image_url |-> image_url,
     seen |-> 0]

\* Lines 198-204 with ev the entry that lines 183-197 leave in _last_event.
CheckTail(ev, seen) ==
    [exc |-> "none",
     last_event |-> Some(ev),
     image |-> IF last_image_id # ev.entry_id THEN None ELSE image,
     image_url |-> IF ev.thumbnails # <<>> THEN ev.thumbnails[1] ELSE 0,
     seen |-> seen]

CheckForNewImage ==
    IF last_event = None
    THEN IF ~entries.present THEN CheckUnchanged("none")
         ELSE IF entries.list = <<>> THEN CheckUnchanged("IndexError")
         ELSE CheckTail(entries.list[1], entries.list[1].entry_id)
    ELSE IF ~entries.present THEN CheckUnchanged("none")
         ELSE IF entries.list = <<>> THEN CheckUnchanged("IndexError")
         ELSE IF last_event[1].entry_id # entries.list[1].entry_id
              THEN CheckTail(entries.list[1], entries.list[1].entry_id)
              ELSE CheckTail(last_event[1], entries.list[1].entry_id)

Started(c) == [seen |-> c.seen, outcome |-> "running", result |-> None]

\* async_camera_image from its call to its first await (or its return).
ImageRequest ==
    /\ pc["image"] = "idle"
    /\ LET c == CheckForNewImage
           s == Started(c)
       IN /\ last_event' = c.last_event
          /\ image' = c.image
          /\ image_url' = c.image_url
          /\ IF c.exc # "none"
             THEN /\ img' = [s EXCEPT !.outcome = "raised"]
                  /\ pc' = pc
             ELSE IF c.image = None /\ c.image_url # 0
             THEN /\ img' = s
                  /\ pc' = [pc EXCEPT !["image"] = "get"]
             ELSE IF c.image = None
             THEN /\ img' = s
                  /\ pc' = [pc EXCEPT !["image"] = "renew"]
             ELSE /\ img' = [s EXCEPT !.outcome = "returned", !.result = c.image]
                  /\ pc' = pc
    /\ UNCHANGED <<setupVars, sensorVars>>
    /\ UNCHANGED <<entries, last_image_id, live, throttle, procs, performed>>

\* The ways async_client.get / raise_for_status end.
FetchOutcomes == {"ok", "TimeoutException", "RequestError", "HTTPStatusError"}
Caught == {"TimeoutException", "RequestError", "HTTPStatusError"}

\* async_camera_image with httpx.HTTPStatusError missing from its except
\* clauses: an HTTP error status ends the request with the exception.
FetchReturnStatusUncaught(o) ==
    /\ pc["image"] = "get"
    /\ IF o = "ok"
       THEN /\ image' = ThumbBytes(image_url)
            /\ last_image_id' = IF last_event = None THEN 0 ELSE last_event[1].entry_id
            /\ pc' = [pc EXCEPT !["image"] = "idle"]
            /\ img' = [img EXCEPT !.outcome = "returned", !.result = image']
       ELSE IF o \in Caught \ {"HTTPStatusError"}
       THEN /\ UNCHANGED <<image, last_image_id>>
            /\ pc' = [pc EXCEPT !["image"] = "renew"]
            /\ img' = img
       ELSE /\ UNCHANGED <<image, last_image_id>>
            /\ pc' = [pc EXCEPT !["image"] = "idle"]
            /\ img' = [img EXCEPT !.outcome = "raised"]
    /\ UNCHANGED <<setupVars, sensorVars>>
    /\ UNCHANGED <<entries, last_event, image_url, live, throttle, procs, performed>>

\* async_camera_image resumed by the HTTP response to GET url, where url
\* is the self._image_url read before the await: lines 147-160.
FetchReturn(o) ==
    /\ pc["image"] = "get"
    /\ IF o = "ok"
       THEN /\ image' = ThumbBytes(image_url)
            /\ last_image_id' = IF last_event = None THEN 0 ELSE last_event[1].entry_id
            /\ pc' = [pc EXCEPT !["image"] = "idle"]
            /\ img' = [img EXCEPT !.outcome = "returned", !.result = image']
       ELSE IF o \in Caught
       THEN /\ UNCHANGED <<image, last_image_id>>
            /\ IF image = None
               THEN /\ pc' = [pc EXCEPT !["image"] = "renew"]
                    /\ img' = img
               ELSE /\ pc' = [pc EXCEPT !["image"] = "idle"]
                    /\ img' = [img EXCEPT !.outcome = "returned", !.result = image]
       ELSE /\ UNCHANGED <<image, last_image_id>>
            /\ pc' = [pc EXCEPT !["image"] = "idle"]
            /\ img' = [img EXCEPT !.outcome = "raised"]
    /\ UNCHANGED <<setupVars, sensorVars>>
    /\ UNCHANGED <<entries, last_event, image_url, live, throttle, procs, performed>>

\* homeassistant.util.Throttle around renew_live_stream_session: a call runs
\* the method unless another call is running it or the last run that returned
\* did so no more than the minimum interval ago.
ThrottleAdmits ==
    /\ ~throttle_lock
    /\ throttle_last = Never \/ throttle_last > MIN_TIME_BETWEEN_SESSION_RENEW

\* renew_live_stream_session without its @Throttle decorator: every call runs
\* the method.
RenewCallUnthrottled(r) ==
    /\ pc[r] = "renew"
    /\ throttle_lock' = TRUE
    /\ pc' = [pc EXCEPT ![r] = "vendor"]
    /\ UNCHANGED <<setupVars, sensorVars>>
    /\ UNCHANGED <<entries, adapter, live, throttle_last, procs, performed, img>>

\* The executor job calls the throttled renew_live_stream_session.
RenewCall(r) ==
    /\ pc[r] = "renew"
    /\ IF ThrottleAdmits
       THEN /\ throttle_lock' = TRUE
            /\ pc' = [pc EXCEPT ![r] = "vendor"]
       ELSE /\ throttle_lock' = throttle_lock
            /\ pc' = [pc EXCEPT ![r] = "renewed"]
    /\ UNCHANGED <<setupVars, sensorVars>>
    /\ UNCHANGED <<entries, adapter, live, throttle_last, procs, performed, img>>

\* renew_live_stream_session runs to its end: get_live_stream_session hands
\* out s, start_renew_session returns, the URL is stored.
RenewReturn(r, s) ==
    /\ pc[r] = "vendor"
    /\ live_stream_session' = Some(s)
    /\ live_stream_url' = s.live_stream_url
    /\ throttle_lock' = FALSE
    /\ throttle_last' = 0
    /\ performed' = 0
    /\ pc' = [pc EXCEPT ![r] = "renewed"]
    /\ UNCHANGED <<setupVars, sensorVars>>
    /\ UNCHANGED <<entries, adapter, procs, img>>

\* renew_live_stream_session ends with an exception of the vendor client:
\* in get_live_stream_session (nothing stored) or in start_renew_session
\* (the session is stored, the URL is not).  The exception ends the request.
VendorCalls == {"get_live_stream_session", "start_renew_session"}

RenewRaise(r, call) ==
    /\ pc[r] = "vendor"
    /\ IF call = "start_renew_session"
       THEN \E s \in Sessions : live_stream_session' = Some(s)
       ELSE live_stream_session' = live_stream_session
    /\ live_stream_url' = live_stream_url
    /\ throttle_lock' = FALSE
    /\ UNCHANGED <<throttle_last, performed>>
    /\ pc' = [pc EXCEPT ![r] = "idle"]
    /\ img' = IF r = "image" THEN [img EXCEPT !.outcome = "raised"] ELSE img
    /\ UNCHANGED <<setupVars, sensorVars>>
    /\ UNCHANGED <<entries, adapter, procs>>

\* async_camera_image resumed after the renewal job: lines 165-175.
ImageAfterRenew ==
    /\ pc["image"] = "renewed"
    /\ IF live_stream_url = 0
       THEN /\ pc' = [pc EXCEPT !["image"] = "idle"]
            /\ img' = [img EXCEPT !.outcome = "returned", !.result = None]
       ELSE IF image = None
       THEN /\ pc' = [pc EXCEPT !["image"] = "grab"]
            /\ img' = img
       ELSE /\ pc' = [pc EXCEPT !["image"] = "idle"]
            /\ img' = [img EXCEPT !.outcome = "returned", !.result = image]
    /\ UNCHANGED <<setupVars, sensorVars>>
    /\ UNCHANGED <<entries, adapter, live, throttle, procs, performed>>

\* async_camera_image resumed by ffmpeg.async_get_image: lines 177-180.
\* frame = FALSE is an empty result.
GrabReturn(frame) ==
    /\ pc["image"] = "grab"
    /\ image' = IF frame THEN LiveFrame ELSE image
    /\ pc' = [pc EXCEPT !["image"] = "idle"]
    /\ img' = [img EXCEPT !.outcome = "returned", !.result = image']
    /\ UNCHANGED <<setupVars, sensorVars>>
    /\ UNCHANGED <<entries, last_event, last_image_id, image_url, live, throttle, procs,
                   performed>>

\* handle_async_mjpeg_stream from its call to the renewal job: line 210.
MjpegRequest ==
    /\ pc["mjpeg"] = "idle"
    /\ running < MaxRunning
    /\ pc' = [pc EXCEPT !["mjpeg"] = "renew"]
    /\ UNCHANGED <<setupVars, sensorVars>>
    /\ UNCHANGED <<entries, adapter, live, throttle, procs, performed, img>>

\* handle_async_mjpeg_stream resumed after the renewal job: lines 212-218.
MjpegAfterRenew ==
    /\ pc["mjpeg"] = "renewed"
    /\ pc' = [pc EXCEPT !["mjpeg"] = IF live_stream_url = 0 THEN "idle" ELSE "opening"]
    /\ UNCHANGED <<setupVars, sensorVars>>
    /\ UNCHANGED <<entries, adapter, live, throttle, procs, performed, img>>

\* stream.open_camera returns: the ffmpeg process runs (started), or could
\* not be started.
OpenReturn(started) ==
    /\ pc["mjpeg"] = "opening"
    /\ stream_open' = started
    /\ running' = IF started THEN running + 1 ELSE running
    /\ pc' = [pc EXCEPT !["mjpeg"] = "reader"]
    /\ UNCHANGED <<setupVars, sensorVars>>
    /\ UNCHANGED <<entries, adapter, live, throttle, performed, img>>

\* The finally clause, stream.close(), ending the request.
Close ==
    /\ running' = IF stream_open THEN running - 1 ELSE running
    /\ stream_open' = FALSE
    /\ pc' = [pc EXCEPT !["mjpeg"] = "idle"]

\* stream.get_reader returns a reader (ok) or raises: lines 220-221, 228-229.
ReaderReturn(ok) ==
    /\ pc["mjpeg"] = "reader"
    /\ IF ok
       THEN /\ pc' = [pc EXCEPT !["mjpeg"] = "proxy"]
            /\ UNCHANGED procs
       ELSE Close
    /\ UNCHANGED <<setupVars, sensorVars>>
    /\ UNCHANGED <<entries, adapter, live, throttle, performed, img>>

\* async_aiohttp_proxy_stream returns or raises: lines 222-229.
ProxyEnd ==
    /\ pc["mjpeg"] = "proxy"
    /\ Close
    /\ UNCHANGED <<setupVars, sensorVars>>
    /\ UNCHANGED <<entries, adapter, live, throttle, performed, img>>

\* The HTTP caller disconnects: the handler's task is cancelled at the await
\* it is suspended in.  Inside the try block the finally clause closes the
\* stream.  At open_camera, which is outside it, the process may or may not
\* have been started, and nothing closes it.  A disconnect during the
\* renewal job takes effect when the job ends.
Disconnect(started) ==
    /\ pc["mjpeg"] \in {"renewed", "opening", "reader", "proxy"}
    /\ IF pc["mjpeg"] \in {"reader", "proxy"}
       THEN Close
       ELSE /\ pc' = [pc EXCEPT !["mjpeg"] = "idle"]
            /\ stream_open' = FALSE
            /\ running' = IF pc["mjpeg"] = "opening" /\ started THEN running + 1
                          ELSE running
    /\ UNCHANGED <<setupVars, sensorVars>>
    /\ UNCHANGED <<entries, adapter, live, throttle, performed, img>>

CameraNext ==
    \/ CoordinatorRefresh
    \/ Tick
    \/ ImageRequest
    \/ \E o \in FetchOutcomes : FetchReturn(o)
    \/ \E r \in Requesters : RenewCall(r)
    \/ \E r \in Requesters, s \in Sessions : RenewReturn(r, s)
    \/ \E r \in Requesters, c \in VendorCalls : RenewRaise(r, c)
    \/ ImageAfterRenew
    \/ \E f \in BOOLEAN : GrabReturn(f)
    \/ MjpegRequest
    \/ MjpegAfterRenew
    \/ \E b \in BOOLEAN : OpenReturn(b)
    \/ \E b \in BOOLEAN : ReaderReturn(b)
    \/ ProxyEnd
    \/ \E b \in BOOLEAN : Disconnect(b)

SpecCamera == CamInit /\ [][CameraNext]_vars

\* The still-image path alone: snapshot refreshes, time, and still-image
\* requests with the renewals they start.
StillNext ==
    \/ CoordinatorRefresh
    \/ Tick
    \/ ImageRequest
    \/ \E o \in FetchOutcomes : FetchReturn(o)
    \/ RenewCall("image")
    \/ \E s \in Sessions : RenewReturn("image", s)
    \/ \E c \in VendorCalls : RenewRaise("image", c)
    \/ ImageAfterRenew
    \/ \E f \in BOOLEAN : GrabReturn(f)

SpecStill == CamInit /\ [][StillNext]_vars

\* Still-image and MJPEG requests interleaved over one snapshot.
StreamNext ==
    \/ Tick
    \/ ImageRequest
    \/ \E o \in FetchOutcomes : FetchReturn(o)
    \/ \E r \in Requesters : RenewCall(r)
    \/ \E r \in Requesters, s \in Sessions : RenewReturn(r, s)
    \/ \E r \in Requesters, c \in VendorCalls : RenewRaise(r, c)
    \/ ImageAfterRenew
    \/ \E f \in BOOLEAN : GrabReturn(f)
    \/ MjpegRequest
    \/ MjpegAfterRenew
    \/ \E b \in BOOLEAN : OpenReturn(b)
    \/ \E b \in BOOLEAN : ReaderReturn(b)
    \/ ProxyEnd
    \/ \E b \in BOOLEAN : Disconnect(b)

SpecStream == CamInit /\ [][StreamNext]_vars

\* ------------------------------------------------------------- camera claims

\* The snapshot's most recent entry has a first thumbnail.
TopHasUrl == entries.present /\ entries.list # <<>> /\ entries.list[1].thumbnails # <<>>

\* The lookup entries[device_id][0] finds nothing.
Miss == ~entries.present \/ entries.list = <<>>

IsThumb(b) == b # None /\ b[1] = "thumb"

\* C1: when a still-image request reads a most-recent entry id that differs
\* from the id the request before it read, it ends _check_for_new_image with
\* no cached image and goes on to a new attempt: the HTTP GET of the
\* thumbnail or the live-view path.  (img.seen is the id the request before
\* read, img'.seen the id this one reads.)
C1_NewEntryInvalidates ==
    [][(ImageRequest /\ img.seen # 0 /\ img'.seen # 0 /\ img'.seen # img.seen)
          => (image' = None /\ pc'["image"] \in {"get", "renew"})]_vars

\* C2: a still-image request that finds the device's key missing or its
\* entry list empty does not raise from _check_for_new_image and leaves
\* _last_event, _image, _image_url and _last_image_id as they were.
C2_LookupMissIsSilent ==
    [][(ImageRequest /\ Miss) => (img'.outcome # "raised" /\ UNCHANGED adapter)]_vars

\* C3: when no MJPEG request is in progress, every transcoding process that
\* a request opened has been closed.
C3_NoProcessLeftOpen == pc["mjpeg"] = "idle" => running = 0

C5_ThumbnailFetchedOnce ==
    [][/\ (ImageRequest /\ TopHasUrl /\ image = None)
             => (pc'["image"] = "get" /\ image_url' = entries.list[1].thumbnails[1])
       /\ FetchReturn("ok")
             => /\ image' = ThumbBytes(image_url)
                /\ last_event # None /\ last_image_id' = last_event[1].entry_id
                /\ pc'["image"] = "idle"
                /\ img'.outcome = "returned" /\ img'.result = image'
       /\ (ImageRequest /\ IsThumb(image) /\ last_image_id # 0
              /\ last_image_id = TopId(entries))
             => /\ pc'["image"] = "idle"
                /\ img'.outcome = "returned" /\ img'.result = image]_vars

\* C6: when the HTTP GET of the thumbnail ends with a timeout, a request
\* error or an HTTP error status, the request does not raise, _image stays
\* absent and _last_image_id stays as it was, and the request goes on to the
\* renewal job; after it, with a live-stream URL stored, it goes on to the
\* still extraction.
C6_FetchFailureFallsThrough ==
    [][/\ (\E o \in Caught : FetchReturn(o))
             => /\ img'.outcome = "running"
                /\ image = None /\ image' = None
                /\ last_image_id' = last_image_id
                /\ pc'["image"] = "renew"
       /\ (ImageAfterRenew /\ live_stream_url # 0) => pc'["image"] = "grab"]_vars

\* C6 witness: a request whose entry has a thumbnail URL is at the still
\* extraction, which it reaches only after the GET of that URL failed.
C6_Witness == pc["image"] = "grab" /\ image_url # 0

\* C10: a still-image request returns without running the live-stream
\* strategy only when the bytes it returns are a fetched thumbnail: it never
\* returns at once a frame that an earlier request extracted.
C10_NoStaleLiveFrame ==
    [][(ImageRequest /\ img'.outcome = "returned") => IsThumb(img'.result)]_vars

\* ------------------------------------------------------------- setup

\* Product names of the Canary API: sensor.py lines 32-34.
CANARY_PRO == "Canary Pro"
CANARY_FLEX == "Canary Flex"
CANARY_VIEW == "Canary View"

\* SENSOR_TYPES, sensor.py lines 38-64: sensor type name and the products
\* that support it (entries 0 and 4 of each tuple).
SENSOR_TYPES ==
    << [name |-> "temperature", models |-> {CANARY_PRO}],
       [name |-> "humidity", models |-> {CANARY_PRO}],
       [name |-> "air_quality", models |-> {CANARY_PRO}],
       [name |-> "wifi", models |-> {CANARY_PRO, CANARY_FLEX, CANARY_VIEW}],
       [name |-> "battery", models |-> {CANARY_FLEX}],
       [name |-> "last_entry_date", models |-> {CANARY_PRO, CANARY_FLEX}],
       [name |-> "entries_captured_today",
        models |-> {CANARY_PRO, CANARY_FLEX, CANARY_VIEW}] >>

SensorTypeNames == {SENSOR_TYPES[i].name : i \in DOMAIN SENSOR_TYPES}

\* Device.device_type, a dict of the vendor's JSON: has_name is whether it
\* holds the key "name", name its value ("" is None).
NoNameKey == [has_name |-> FALSE, name |-> ""]
DeviceTypes ==
    {NoNameKey} \cup
    {[has_name |-> TRUE, name |-> n] :
        n \in {CANARY_PRO, CANARY_FLEX, CANARY_VIEW, "Canary Premium", ""}}

\* Locations of the snapshot in the order of coordinator.data["locations"],
\* each with its list of devices; device_id is <<location, position>>.
LocationIds == <<"home", "cabin">>

DeviceLists(loc) ==
    UNION {{[i \in 1..k |-> [device_id |-> <<loc, i>>,
                             is_online |-> f[i].is_online,
                             device_type |-> f[i].device_type]] :
              f \in [1..k -> [is_online : BOOLEAN, device_type : DeviceTypes]]} :
           k \in 0..MaxDevices}

LocationSnapshots ==
    {[i \in DOMAIN LocationIds |->
         [location_id |-> LocationIds[i], devices |-> IF i = 1 THEN a ELSE b]] :
       a \in DeviceLists(LocationIds[1]), b \in DeviceLists(LocationIds[2])}

RECURSIVE Flatten(_)
Flatten(ss) == IF ss = <<>> THEN <<>> ELSE Head(ss) \o Flatten(Tail(ss))

IsOnline(d) == d.is_online

\* The devices the two nested loops of async_setup_entry reach past
\* "if device.is_online", in loop order.
OnlineDevices ==
    SelectSeq(Flatten([i \in DOMAIN locations |-> locations[i].devices]), IsOnline)

\* camera.async_setup_entry: CanaryCamera.__init__ reads
\* device.device_type["name"] (line 110), a KeyError without the key; the
\* exception leaves the function before async_add_entities.
CameraSetupEntry ==
    /\ cameras = Unset
    /\ cameras' = IF \E i \in DOMAIN OnlineDevices : ~OnlineDevices[i].device_type.has_name
                  THEN <<"KeyError">>
                  ELSE <<"added", [i \in DOMAIN OnlineDevices |-> OnlineDevices[i].device_id]>>
    /\ UNCHANGED <<locations, sensors, camVars, sensorVars>>

\* device_type.get("name") in sensor_type[4]: sensor.py line 87.
Supports(t, d) == d.device_type.has_name /\ d.device_type.name \in t.models

RECURSIVE SensorsOf(_)
SensorsOf(ds) ==
    IF ds = <<>> THEN <<>>
    ELSE LET d == Head(ds)
             Pick(t) == Supports(t, d)
             mine == SelectSeq(SENSOR_TYPES, Pick)
         IN [i \in DOMAIN mine |-> <<d.device_id, mine[i].name>>] \o SensorsOf(Tail(ds))

\* sensor.async_setup_entry: lines 82-92.
SensorSetupEntry ==
    /\ sensors = Unset
    /\ sensors' = <<"added", SensorsOf(OnlineDevices)>>
    /\ UNCHANGED <<locations, cameras, camVars, sensorVars>>

CamParked == entries = MissingKey /\ CameraConstructed

SetupInit ==
    /\ locations \in LocationSnapshots
    /\ cameras = Unset
    /\ sensors = Unset
    /\ CamParked
    /\ SensorParked

SetupNext == CameraSetupEntry \/ SensorSetupEntry

SpecSetup == SetupInit /\ [][SetupNext]_vars

\* ------------------------------------------------------------- setup claim

AllDevices == Flatten([i \in DOMAIN locations |-> locations[i].devices])
OnlineIds == {AllDevices[i].device_id : i \in {j \in DOMAIN AllDevices : AllDevices[j].is_online}}

\* Exactly one element of list l for each member of set S, and no other.
OnePer(l, S) == Len(l) = Cardinality(S) /\ {l[i] : i \in DOMAIN l} = S

\* The (online device, sensor type) pairs whose device's product name is in
\* the sensor type's list of products.
ListedPairs ==
    {p \in OnlineIds \X SensorTypeNames :
        \E i \in DOMAIN AllDevices, k \in DOMAIN SENSOR_TYPES :
            /\ AllDevices[i].device_id = p[1]
            /\ SENSOR_TYPES[k].name = p[2]
            /\ AllDevices[i].device_type.has_name
            /\ AllDevices[i].device_type.name \in SENSOR_TYPES[k].models}

\* C7: once the camera platform is set up it has added exactly one camera
\* per online device, and once the sensor platform is set up it has added
\* exactly one sensor per online device and sensor type whose product list
\* names the device's product; nothing is added for an offline device or
\* for a product that is not listed, a device without a product name
\* included.
C7_OneAdapterPerListedDevice ==
    /\ cameras # Unset => (cameras[1] = "added" /\ OnePer(cameras[2], OnlineIds))
    /\ sensors # Unset => (sensors[1] = "added" /\ OnePer(sensors[2], ListedPairs))

\* ------------------------------------------------------------- sensor.py

\* A reading's value as round(float(value), SENSOR_VALUE_PRECISION) sees it,
\* with SENSOR_VALUE_PRECISION = 2 (line 25):
\* floor is the value cut to hundredths, up is whether what follows the
\* hundredths rounds it up to the next one.
ReadingFloors == {35, 40, 50, 59, 80}
ReadingValues == [floor : ReadingFloors, up : BOOLEAN]

\* canary.model.Reading: sensor_type and value.
Reading == [sensor_type : {"air_quality", "temperature"}, value : ReadingValues]

\* coordinator.data["readings"] restricted to the sensor's device key.
ReadingSlots ==
    {MissingKey} \cup
    {[present |-> TRUE, list |-> l] : l \in UNION {[1..k -> Reading] : k \in 0..MaxReadings}}

\* CanarySensor.__init__, lines 114-139: the kind of data a sensor type reads
\* (the SensorType it looks for in the readings is named like the sensor type).
CanaryDataType(t) ==
    IF t \in {"air_quality", "temperature", "humidity", "wifi", "battery"} THEN "reading"
    ELSE IF t \in {"last_entry_date", "entries_captured_today"} THEN "entry"
    ELSE "none"

\* round(float(value), 2), in hundredths.
Round2(v) == IF v.up THEN v.floor + 1 ELSE v.floor

\* CanarySensor.reading, lines 151-171: None, or the rounded value of the
\* first reading of the sensor's type.
SensorReading ==
    IF ~readings.present THEN None
    ELSE LET Mine(r) == r.sensor_type = sensor_type
             matching == SelectSeq(readings.list, Mine)
         IN IF matching = <<>> THEN None ELSE Some(Round2(matching[1].value))

\* Entry.start_time of entry e.
StartTime(e) == <<"start_time", e.entry_id>>

\* CanarySensor.native_value with "if entry:" in place of "if entry is not
\* None": an empty entry list counts as no list.
NativeValueOfTruthy ==
    IF CanaryDataType(sensor_type) = "reading"
    THEN IF SensorReading = None THEN None ELSE Some(<<"reading", SensorReading[1]>>)
    ELSE IF CanaryDataType(sensor_type) = "entry"
    THEN IF ~entries.present \/ entries.list = <<>> THEN None
         ELSE IF sensor_type = "entries_captured_today"
         THEN Some(<<"count", Len(entries.list)>>)
         ELSE Some(StartTime(entries.list[1]))
    ELSE None

\* CanarySensor.native_value, lines 173-194.
NativeValueOf ==
    IF CanaryDataType(sensor_type) = "reading"
    THEN IF SensorReading = None THEN None ELSE Some(<<"reading", SensorReading[1]>>)
    ELSE IF CanaryDataType(sensor_type) = "entry"
    THEN IF ~entries.present THEN None
         ELSE IF sensor_type = "entries_captured_today"
         THEN Some(<<"count", Len(entries.list)>>)
         ELSE IF entries.list = <<>> THEN None
         ELSE Some(StartTime(entries.list[1]))
    ELSE None

\* The banding with "<" in place of "<=" at both thresholds.
AirQualityBandStrict(reading) ==
    IF reading < 40 THEN "very_abnormal"
    ELSE IF reading < 59 THEN "abnormal"
    ELSE "normal"

\* Lines 203-208: the band of a rounded reading, in hundredths.
AirQualityBand(reading) ==
    IF reading <= 40 THEN "very_abnormal"
    ELSE IF reading <= 59 THEN "abnormal"
    ELSE "normal"

\* CanarySensor.extra_state_attributes, lines 196-212: None or the value of
\* the air_quality attribute.
ExtraStateAttributesOf ==
    IF sensor_type = "air_quality" /\ SensorReading # None
    THEN Some(AirQualityBand(SensorReading[1]))
    ELSE None

\* The platform reads the native_value property.
ReadNativeValue ==
    /\ native_value = Unset
    /\ native_value' = <<"read", NativeValueOf>>
    /\ UNCHANGED <<sensor_type, readings, extra_state_attributes, camVars, setupVars>>

\* The platform reads the extra_state_attributes property.
ReadExtraStateAttributes ==
    /\ extra_state_attributes = Unset
    /\ extra_state_attributes' = <<"read", ExtraStateAttributesOf>>
    /\ UNCHANGED <<sensor_type, readings, native_value, camVars, setupVars>>

\* A sensor of any type over a snapshot that varies in the device's readings
\* or in the device's entries.
SensorInit ==
    /\ sensor_type \in SensorTypeNames
    /\ \/ readings \in ReadingSlots /\ entries = MissingKey
       \/ readings = MissingKey /\ entries \in EntrySlots(MaxOlder)
    /\ native_value = Unset
    /\ extra_state_attributes = Unset
    /\ CameraConstructed
    /\ SetupParked

SensorNext == ReadNativeValue \/ ReadExtraStateAttributes

SpecSensor == SensorInit /\ [][SensorNext]_vars

\* ------------------------------------------------------------- sensor claims

\* The air_quality readings of the snapshot, in list order.
IsAir(r) == r.sensor_type = "air_quality"
AirReadings == IF readings.present THEN SelectSeq(readings.list, IsAir) ELSE <<>>

\* C8: for an air_quality sensor with an air_quality reading, the attribute
\* is the band of the reading rounded to hundredths: very_abnormal up to 40,
\* abnormal from 41 to 59, normal from 60; there is no attribute when the
\* device has no air_quality reading or no readings key, nor for a sensor of
\* another type.
C8_AirQualityBands ==
    extra_state_attributes # Unset =>
        LET got == extra_state_attributes[2]
        IN IF sensor_type = "air_quality" /\ AirReadings # <<>>
           THEN LET v == AirReadings[1].value
                    h == IF v.up THEN v.floor + 1 ELSE v.floor
                IN /\ got # None
                   /\ (h <= 40) <=> (got[1] = "very_abnormal")
                   /\ (h > 40 /\ h <= 59) <=> (got[1] = "abnormal")
                   /\ (h > 59) <=> (got[1] = "normal")
           ELSE got = None

\* C8 witness: a reading that rounds to exactly 0.40 was classified
\* very_abnormal.
C8_Witness ==
    /\ sensor_type = "air_quality"
    /\ AirReadings # <<>>
    /\ AirReadings[1].value = [floor |-> 40, up |-> FALSE]
    /\ extra_state_attributes = <<"read", Some("very_abnormal")>>

\* C9: the value of an entries_captured_today sensor is the length of the
\* device's entry list when the snapshot has the device's key, and None
\* exactly when it has not; reading it leaves the snapshot as it was.
C9_EntriesCapturedToday ==
    [][(ReadNativeValue /\ sensor_type = "entries_captured_today")
          => /\ entries.present => native_value'[2] = Some(<<"count", Len(entries.list)>>)
             /\ (native_value'[2] = None) <=> ~entries.present
             /\ UNCHANGED <<entries, readings, locations>>]_vars

\* C9 witness: the sensor returned 3 for a list of three entries.
C9_Witness ==
    /\ sensor_type = "entries_captured_today"
    /\ entries.present /\ Len(entries.list) = 3
    /\ native_value = <<"read", Some(<<"count", 3>>)>>

====
